---- MODULE Spec2Model ----
(***************************************************************************)
(* The ingestion pipeline of nba-analytics: the adaptive rate limiter and  *)
(* circuit breaker of NBAAPIClient, its box-score fetch with retries, the  *)
(* season schedule walk, the entity resolvers and the batch writer of      *)
(* app/ingestion/ingest.py, and the orchestrator ingest_from_nba_api.      *)
(*                                                                         *)
(* Each component has a specification of its own over the shared state:    *)
(*   SpecClient    _rate_limit, get_teams, get_box_score                   *)
(*   SpecDiscover  get_games_for_season                                    *)
(*   SpecWriter    _batch_insert_box_scores_optimized, ingest_box_score    *)
(*   SpecResolver  ingest_teams, ingest_game                               *)
(*   Spec          ingest_from_nba_api, run after run on one store         *)
(* Times are counted in ticks of 1/150 s, so that every delay the limiter  *)
(* computes (2 s times 1.5, times 1 + (n - 100)/300, ...) is an integer.   *)
(***************************************************************************)
EXTENDS Integers, Sequences, FiniteSets, TLC

VARIABLES
    \* NBAAPIClient (nba_api_client.py:26-32)
    client,         \* [request_count, slow_request_count, consecutive_failures,
                    \*  circuit_breaker_active]
    rl_pause,       \* time.sleep(pause_time) of the last _rate_limit call, in ticks
    rl_delay,       \* adaptive_delay of the last _rate_limit call, in ticks
    \* one get_box_score call (nba_api_client.py:429-554)
    fpc,            \* "idle" | "acquire" | "request" | "returned"
    f_game_id,      \* the game_id argument
    f_max_retries,  \* the max_retries argument
    attempt,        \* the loop variable
    f_acquires,     \* _rate_limit calls made by this call
    f_requests,     \* upstream requests made by this call
    f_failed,       \* retryable failures this call has counted
    f_last,         \* outcome of the last upstream request of this call
    f_backoff,      \* time.sleep of the except branch, summed, in seconds
    f_result,       \* the list returned
    \* one get_games_for_season call (nba_api_client.py:302-427)
    dpc,            \* "idle" | "walk" | "returned"
    schedule,       \* what the upstream answers for each day of this walk
    start_date,     \* date(year_start, 10, 1)
    end_date,       \* date(year_end, 6, 30)
    current_date,
    consecutive_empty_days,
    all_games,
    d_requests,     \* ScoreboardV2 requests issued by this call
    d_result,       \* the list returned
    \* the store (models.py) and the session's pair set (ingest.py:511)
    teams,          \* rows of Team, in insertion order
    players,        \* rows of Player
    games,          \* rows of Game
    box_scores,     \* rows of BoxScore
    inserted_pairs, \* (game_id, player_id) pairs the session holds as inserted
    w_last,         \* the last writer call: what it was given and what it did
    w_calls,        \* writer and ingest_box_score calls made so far
    \* the maps the resolvers return (ingest.py:23, 75, 492)
    team_map,       \* abbreviation -> Team id
    player_map,     \* name -> Player id
    game_id_map,    \* upstream game id -> Game id, in insertion order
    g_last,         \* the last ingest_game call: its payload and what it did
    g_calls,        \* per ingestion process, its ingest_game call in progress
    \* one ingest_from_nba_api run (ingest.py:442-572)
    opc,            \* position of the run
    run,            \* number of the run, 0 before the first
    upstream,       \* what the upstream serves, the same for every run
    idx,            \* the loop variable of line 514
    rows_left,      \* rows of box_scores_data not yet handled (line 524)
    batch,
    box_score_count,
    appended,       \* pairs appended to batch in this run (line 530)
    first_counts,   \* row counts of the store when the first run ended
    fetched,        \* upstream ids this run called get_box_score with, in order
    interrupts      \* runs that were killed before their end

clientVars == <<client, rl_pause, rl_delay>>
fetchVars == <<fpc, f_game_id, f_max_retries, attempt, f_acquires, f_requests,
               f_failed, f_last, f_backoff, f_result>>
discVars == <<dpc, schedule, start_date, end_date, current_date,
              consecutive_empty_days, all_games, d_requests, d_result>>
storeVars == <<teams, players, games, box_scores>>
writerVars == <<inserted_pairs, w_last, w_calls>>
mapVars == <<team_map, player_map, game_id_map, g_last, g_calls>>
orchVars == <<opc, run, upstream, idx, rows_left, batch, box_score_count,
              appended, first_counts, fetched, interrupts>>
runVars == <<mapVars, orchVars>>
vars == <<clientVars, fetchVars, discVars, storeVars, writerVars, runVars>>

-----------------------------------------------------------------------------
(* Bounds of the model *)

\* get_box_score calls start while fewer than this many requests were issued
MaxRequests == 12
\* largest max_retries argument tried
MaxRetries == 3
\* most rows of an upstream box-score data frame
MaxRows == 1
\* longest candidate list handed to the batch writer, the large one aside
MaxBatch == 2
\* players per game in the large candidate list
BigPlayers == 51
\* writer and ingest_box_score calls of one behaviour
MaxWrites == 2
\* Game rows the store holds at most under SpecResolver
MaxGames == 2
\* games of the long seasons the upstream serves: one more than the games
\* between two clears of the pair set, and one more than the games whose
\* rows fill a batch
ManyGames == 201
FullGames == 101
\* runs of ingest_from_nba_api on the same store
MaxRuns == 2
\* largest request, slow-request and failure counters of the limiter states
\* SpecLimiter starts from
MaxCount == 255
MaxSlow == 7
MaxFailures == 10
\* runs of one behaviour that are killed before their end
MaxInterrupts == 1

-----------------------------------------------------------------------------
(* Rate limiter / circuit breaker: NBAAPIClient._rate_limit *)

Ticks(seconds) == seconds * 150

\* self.rate_limit_delay, seconds (default of __init__)
rate_limit_delay == 2
\* pause_time of the circuit breaker, seconds
pause_time == 30

NewClient ==
    [request_count |-> 0, slow_request_count |-> 0,
     consecutive_failures |-> 0, circuit_breaker_active |-> FALSE]

\* lines 37-42: the breaker block at the head of _rate_limit
AfterBreaker(c) ==
    IF c.circuit_breaker_active
    THEN [c EXCEPT !.circuit_breaker_active = FALSE, !.consecutive_failures = 0]
    ELSE c

\* the time the breaker block sleeps
BreakerPause(c) == IF c.circuit_breaker_active THEN Ticks(pause_time) ELSE 0

\* the tiers with the slow-request tiers tested before the failure tiers
AdaptiveDelaySlowFirst(c) ==
    IF c.consecutive_failures >= 10 THEN Ticks(10)
    ELSE IF c.slow_request_count > 5 THEN Ticks(rate_limit_delay) * 2
    ELSE IF c.slow_request_count > 2 THEN (Ticks(rate_limit_delay) * 3) \div 2
    ELSE IF c.consecutive_failures > 5 THEN Ticks(rate_limit_delay) * 8
    ELSE IF c.consecutive_failures > 2 THEN Ticks(rate_limit_delay) * 4
    ELSE IF c.request_count > 100
         THEN (Ticks(rate_limit_delay) * (300 + (c.request_count - 100))) \div 300
    ELSE Ticks(rate_limit_delay)

\* lines 49-68: adaptive_delay from the counters, after the request was counted
AdaptiveDelay(c) ==
    IF c.consecutive_failures >= 10 THEN Ticks(10)
    ELSE IF c.consecutive_failures > 5 THEN Ticks(rate_limit_delay) * 8
    ELSE IF c.consecutive_failures > 2 THEN Ticks(rate_limit_delay) * 4
    ELSE IF c.slow_request_count > 5 THEN Ticks(rate_limit_delay) * 2
    ELSE IF c.slow_request_count > 2 THEN (Ticks(rate_limit_delay) * 3) \div 2
    ELSE IF c.request_count > 100
         THEN (Ticks(rate_limit_delay) * (300 + (c.request_count - 100))) \div 300
    ELSE Ticks(rate_limit_delay)

\* _rate_limit as a whole: the client after the call
RateLimitNoReset(c) ==
    LET c1 == [c EXCEPT !.circuit_breaker_active = FALSE]
        c2 == [c1 EXCEPT !.request_count = @ + 1]
    IN  IF c2.consecutive_failures >= 10
        THEN [c2 EXCEPT !.circuit_breaker_active = TRUE]
        ELSE c2

RateLimit(c) ==
    LET c1 == AfterBreaker(c)
        c2 == [c1 EXCEPT !.request_count = @ + 1]
    IN  IF c2.consecutive_failures >= 10
        THEN [c2 EXCEPT !.circuit_breaker_active = TRUE]
        ELSE c2

\* adaptive_delay of a _rate_limit call made in client state c
RateLimitDelay(c) ==
    AdaptiveDelay([AfterBreaker(c) EXCEPT !.request_count = @ + 1])

\* a caller's self._rate_limit()
Acquire ==
    /\ client' = RateLimit(client)
    /\ rl_pause' = BreakerPause(client)
    /\ rl_delay' = RateLimitDelay(client)

-----------------------------------------------------------------------------
(* Box-score fetch: NBAAPIClient.get_box_score *)

\* game ids handed to get_box_score: none, too short, well formed
GameIds == {"", "22300270", "0022300270"}

\* line 443 without its length test
InvalidGameIdOnlyEmpty(gid) == gid = ""

\* line 443: not game_id or len(str(game_id)) != 10
InvalidGameId(gid) == gid = "" \/ Len(gid) # 10

\* MIN column of an upstream row: played "MM:SS", a text that is no time,
\* empty, NaN, None
MinValues == {"12:30", "DNP", "", "NaN", "None"}
PlayerNames == {"A", "B"}
UpstreamRows == [PLAYER_NAME : PlayerNames, MIN : {"12:30", "None"}]
    \cup [PLAYER_NAME : {"A"}, MIN : MinValues]

RECURSIVE SeqsUpTo(_, _)
SeqsUpTo(S, n) ==
    IF n = 0 THEN {<<>>}
    ELSE LET shorter == SeqsUpTo(S, n - 1)
         IN  shorter \cup {Append(s, x) : s \in {t \in shorter : Len(t) = n - 1}, x \in S}

\* the data frames the upstream answers with
DataFrames == SeqsUpTo(UpstreamRows, MaxRows)

\* what one upstream request does: a data frame after a fast or a slow round
\* trip (elapsed > 5.0), or an exception whose text names not-found/invalid,
\* a timeout, or anything else
Outcomes ==
    [kind : {"fast", "slow"}, df : DataFrames]
    \cup [kind : {"not_found", "timeout", "error"}, df : {<<>>}]

\* lines 482-489: rows without minutes are skipped
KeepsRow(row) == row.MIN \notin {"None", "", "NaN"}

\* lines 479-520: the rows returned for a data frame
RECURSIVE BoxScoresData(_)
BoxScoresData(df) ==
    IF df = <<>> THEN <<>>
    ELSE LET row == Head(df)
             rest == BoxScoresData(Tail(df))
         IN  IF KeepsRow(row)
             THEN <<[playerName |-> row.PLAYER_NAME, minutes |-> row.MIN]>> \o rest
             ELSE rest

\* lines 464-472: the slow-request counter after a non-empty response
SlowCount(c, kind) ==
    IF kind = "slow" THEN c.slow_request_count + 1
    ELSE IF c.slow_request_count > 0 THEN c.slow_request_count - 1
    ELSE c.slow_request_count

\* lines 458-462: the client after a response without rows, which returns
\* before the latency is looked at
AfterEmptyFrameCountsFailure(c) == [c EXCEPT !.consecutive_failures = @ + 1]
AfterEmptyFrame(c) == c

\* line 526: "404" / "not found" / "invalid" in error_str
IsNotFoundNeverMatches(kind) == FALSE
IsNotFound(kind) == kind = "not_found"

\* line 534: attempt < max_retries - 1, another attempt follows
RetriesLeftOffByOne(att, max_retries) == att < max_retries - 2
RetriesLeft(att, max_retries) == att < max_retries - 1

RECURSIVE Pow2(_)
Pow2(n) == IF n = 0 THEN 1 ELSE 2 * Pow2(n - 1)

\* lines 536-539: wait_time of a retry, seconds
WaitTime(kind, att) == IF kind = "timeout" THEN Pow2(att) * 5 ELSE Pow2(att) * 2

\* lines 442-447: the call starts; a malformed id returns at once
CallGetBoxScore(gid, max_retries) ==
    /\ fpc \in {"idle", "returned"}
    /\ client.request_count < MaxRequests
    /\ f_game_id' = gid
    /\ f_max_retries' = max_retries
    /\ attempt' = 0
    /\ f_acquires' = 0
    /\ f_requests' = 0
    /\ f_failed' = 0
    /\ f_last' = "none"
    /\ f_backoff' = 0
    /\ f_result' = <<>>
    /\ fpc' = IF InvalidGameId(gid) \/ max_retries = 0 THEN "returned" ELSE "acquire"
    /\ UNCHANGED <<clientVars, discVars, storeVars, writerVars, runVars>>

\* line 448: self._rate_limit() at the head of an attempt
FetchAcquire ==
    /\ fpc = "acquire"
    /\ Acquire
    /\ f_acquires' = f_acquires + 1
    /\ fpc' = "request"
    /\ UNCHANGED <<f_game_id, f_max_retries, attempt, f_requests, f_failed,
                   f_last, f_backoff, f_result, discVars, storeVars, writerVars, runVars>>

\* lines 450-520: the request answers with a data frame
FetchResponse(o) ==
    /\ fpc = "request"
    /\ o.kind \in {"fast", "slow"}
    /\ f_requests' = f_requests + 1
    /\ f_last' = IF o.df # <<>> THEN o.kind
                 ELSE IF o.kind = "slow" THEN "empty_slow" ELSE "empty"
    /\ client' = IF o.df = <<>> THEN AfterEmptyFrame(client)
                 ELSE [client EXCEPT !.slow_request_count = SlowCount(client, o.kind)]
    /\ f_result' = BoxScoresData(o.df)
    /\ fpc' = "returned"
    /\ UNCHANGED <<rl_pause, rl_delay, f_game_id, f_max_retries, attempt,
                   f_acquires, f_failed, f_backoff, discVars,
                   storeVars, writerVars, runVars>>

\* lines 522-552: the request raises
FetchError(o) ==
    /\ fpc = "request"
    /\ o.kind \in {"not_found", "timeout", "error"}
    /\ f_requests' = f_requests + 1
    /\ f_last' = o.kind
    /\ f_result' = <<>>
    /\ IF IsNotFound(o.kind)
       THEN /\ fpc' = "returned"
            /\ UNCHANGED <<client, attempt, f_failed, f_backoff>>
       ELSE /\ client' = [client EXCEPT !.consecutive_failures = @ + 1]
            /\ f_failed' = f_failed + 1
            /\ IF RetriesLeft(attempt, f_max_retries)
               THEN /\ f_backoff' = f_backoff + WaitTime(o.kind, attempt)
                    /\ attempt' = attempt + 1
                    /\ fpc' = "acquire"
               ELSE /\ f_backoff' = f_backoff
                                    + (IF client.consecutive_failures + 1 > 3 THEN 10 ELSE 0)
                    /\ attempt' = attempt
                    /\ fpc' = "returned"
    /\ UNCHANGED <<rl_pause, rl_delay, f_game_id, f_max_retries, f_acquires, discVars,
                   storeVars, writerVars, runVars>>

\* the limiter states a client can be in between two calls: the breaker is
\* set only by a call that saw 10 failures, and every failure and every slow
\* request followed a counted request
LimiterStates ==
    {c \in [request_count : 0..MaxCount, slow_request_count : 0..MaxSlow,
            consecutive_failures : 0..MaxFailures, circuit_breaker_active : BOOLEAN] :
        /\ c.circuit_breaker_active => c.consecutive_failures >= 10
        /\ c.slow_request_count + c.consecutive_failures <= c.request_count}

\* self._rate_limit() of any caller
CallRateLimit ==
    /\ client.request_count < MaxCount
    /\ Acquire
    /\ UNCHANGED <<fetchVars, discVars, storeVars, writerVars, runVars>>

\* lines 74-106: get_teams, a caller of _rate_limit outside get_box_score
GetTeams ==
    /\ fpc \in {"idle", "returned"}
    /\ client.request_count < MaxRequests
    /\ Acquire
    /\ UNCHANGED <<fetchVars, discVars, storeVars, writerVars, runVars>>


-----------------------------------------------------------------------------
(* Calendar dates: datetime.date as the code uses it *)

IsLeap(y) == (y % 4 = 0 /\ y % 100 # 0) \/ y % 400 = 0

DaysInMonth(y, m) ==
    IF m = 2 THEN (IF IsLeap(y) THEN 29 ELSE 28)
    ELSE IF m \in {4, 6, 9, 11} THEN 30 ELSE 31

Date(y, m, d) == [year |-> y, month |-> m, day |-> d]

\* current_date + timedelta(days=1)
NextDay(dt) ==
    IF dt.day < DaysInMonth(dt.year, dt.month) THEN Date(dt.year, dt.month, dt.day + 1)
    ELSE IF dt.month < 12 THEN Date(dt.year, dt.month + 1, 1)
    ELSE Date(dt.year + 1, 1, 1)

\* a <= b on dates
DateLE(a, b) ==
    \/ a.year < b.year
    \/ a.year = b.year /\ a.month < b.month
    \/ a.year = b.year /\ a.month = b.month /\ a.day <= b.day

-----------------------------------------------------------------------------
(* Schedule discovery: NBAAPIClient.get_games_for_season *)

\* max_empty_days
max_empty_days == 7

\* The upstream's answers over one walk.  Day n of the walk (n = 0 on
\* October 1) is a game day when first <= n <= last and n - first is a
\* multiple of gap.  On a game day the scoreboard lists a game: `busy` says
\* whether its teams are in _team_id_to_abbr ("games") or not ("unmapped").
\* On any other day the scoreboard has an empty rowSet ("empty"), fewer than
\* two result sets ("malformed"), or the request raises ("error").
Schedules ==
    [first : {0, 6, 7}, gap : {1, 7, 8}, last : {20, 265, 999},
     busy : {"games", "unmapped"}, idle : {"empty", "malformed", "error"}]

SeasonStartYears == {2022, 2023}

\* the answer to the request for day n
DayAnswer(sch, n) ==
    IF n >= sch.first /\ n <= sch.last /\ (n - sch.first) % sch.gap = 0
    THEN sch.busy
    ELSE sch.idle

\* line 333: consecutive_empty_days >= max_empty_days
TooManyEmptyDaysStrict(streak) == streak > max_empty_days
TooManyEmptyDays(streak) == streak >= max_empty_days

\* lines 400-407: the game record of a game day
GameOfDay(n, dt) ==
    [gameId |-> n, gameDate |-> dt, homeTeam |-> "LAL", awayTeam |-> "BOS",
     homeScore |-> 100, awayScore |-> 99]

\* lines 313-329
CallGetGamesForSeason(year_start, sch) ==
    /\ dpc = "idle"
    /\ dpc' = "walk"
    /\ schedule' = sch
    /\ start_date' = Date(year_start, 10, 1)
    /\ end_date' = Date(year_start + 1, 6, 30)
    /\ current_date' = Date(year_start, 10, 1)
    /\ consecutive_empty_days' = 0
    /\ all_games' = <<>>
    /\ d_requests' = 0
    /\ d_result' = <<>>
    /\ UNCHANGED <<clientVars, fetchVars, storeVars, writerVars, runVars>>

\* lines 344-415: the streak after a day's answer; only a day with a game
\* header ends it
StreakAfterErrorsIgnored(streak, answer) ==
    IF answer \in {"games", "unmapped"} THEN 0
    ELSE IF answer = "error" THEN streak
    ELSE streak + 1
StreakAfter(streak, answer) ==
    IF answer \in {"games", "unmapped"} THEN 0
    ELSE streak + 1

\* lines 331-420: one pass of the loop body, for one date
WalkDay ==
    /\ dpc = "walk"
    /\ DateLE(current_date, end_date)
    /\ ~TooManyEmptyDays(consecutive_empty_days)
    /\ Acquire
    /\ d_requests' = d_requests + 1
    /\ LET answer == DayAnswer(schedule, d_requests)
       IN  /\ consecutive_empty_days' = StreakAfter(consecutive_empty_days, answer)
           /\ all_games' =
                IF answer = "games"
                THEN Append(all_games, GameOfDay(d_requests, current_date))
                ELSE all_games
    /\ current_date' = NextDay(current_date)
    /\ UNCHANGED <<dpc, schedule, start_date, end_date, d_result, fetchVars,
                   storeVars, writerVars, runVars>>

\* lines 333-335 and 426-427: break out of the loop and return
StopEarly ==
    /\ dpc = "walk"
    /\ DateLE(current_date, end_date)
    /\ TooManyEmptyDays(consecutive_empty_days)
    /\ dpc' = "returned"
    /\ d_result' = all_games
    /\ UNCHANGED <<schedule, start_date, end_date, current_date,
                   consecutive_empty_days, all_games, d_requests,
                   clientVars, fetchVars, storeVars, writerVars, runVars>>

\* lines 331 and 426-427: the loop condition fails, return
ReachEnd ==
    /\ dpc = "walk"
    /\ ~DateLE(current_date, end_date)
    /\ dpc' = "returned"
    /\ d_result' = all_games
    /\ UNCHANGED <<schedule, start_date, end_date, current_date,
                   consecutive_empty_days, all_games, d_requests,
                   clientVars, fetchVars, storeVars, writerVars, runVars>>

-----------------------------------------------------------------------------
(* The store: models.py.  A table is the sequence of its rows in insertion  *)
(* order; a row's id is its position, as the autoincrement key gives it.    *)

\* None where the code holds an id: ids start at 1, and `not x` is true of both
NoId == 0
\* None in a nullable number column (minutes, scores)
NULL == -1

PairOf(bs) == <<bs.game_id, bs.player_id>>

PairsOf(rows) == {PairOf(rows[i]) : i \in DOMAIN rows}

\* models.py:71-73, UniqueConstraint('game_id', 'player_id'): the insert of a
\* row whose pair the table holds raises IntegrityError
NoUniqueConstraint(table, bs) == FALSE
ViolatesUnique(table, bs) == \E i \in DOMAIN table : PairOf(table[i]) = PairOf(bs)

\* the row a BoxScore object becomes when its insert commits
StoredRow(table, bs) ==
    [id |-> Len(table) + 1, game_id |-> bs.game_id, player_id |-> bs.player_id,
     minutes |-> bs.minutes]

\* one row of db.bulk_save_objects: st is [ok, table]; after a violation the
\* transaction is lost and the rows that follow are not inserted
BulkStep(st, bs) ==
    IF ~st.ok \/ ViolatesUnique(st.table, bs) THEN [st EXCEPT !.ok = FALSE]
    ELSE [st EXCEPT !.table = Append(@, StoredRow(@, bs))]

\* the rows of objs in order, as a left fold of BulkStep (the first half of
\* the list, then the second)
RECURSIVE BulkSteps(_, _)
BulkSteps(st, objs) ==
    IF objs = <<>> THEN st
    ELSE IF Len(objs) = 1 THEN BulkStep(st, objs[1])
    ELSE LET half == Len(objs) \div 2
             first == BulkSteps(st, SubSeq(objs, 1, half))
         IN  IF ~first.ok THEN first
             ELSE BulkSteps(first, SubSeq(objs, half + 1, Len(objs)))

\* db.bulk_save_objects(final_box_scores) and db.commit(), ingest.py:412-413:
\* the rows are inserted in order in one transaction; the result is the table
\* with all of them, or, after db.rollback() (line 417), the table as it was
BulkInsert(table, objs) ==
    LET st == BulkSteps([ok |-> TRUE, table |-> table], objs)
    IN  IF st.ok THEN st ELSE [ok |-> FALSE, table |-> table]

-----------------------------------------------------------------------------
(* Batch writer: _batch_insert_box_scores_optimized, ingest.py:348-433 *)

\* line 375: the existence query is skipped above this many distinct pairs
db_check_threshold == 100

\* lines 420-431, the body of the row-by-row loop: db.add(bs) and db.commit()
\* in a transaction of its own.  st is [table, pairs, count].
RowByRowStepCountsAll(st, bs) ==
    IF ViolatesUnique(st.table, bs)
    THEN [st EXCEPT !.pairs = @ \ {PairOf(bs)}, !.count = @ + 1]
    ELSE [table |-> Append(st.table, StoredRow(st.table, bs)),
          pairs |-> st.pairs \cup {PairOf(bs)},
          count |-> st.count + 1]

\* the loop body as an upsert: a row that violates the constraint replaces
\* the stored row of its pair
RowByRowStepReplaces(st, bs) ==
    IF ViolatesUnique(st.table, bs)
    THEN [st EXCEPT !.table = [i \in DOMAIN @ |->
                                  IF PairOf(@[i]) = PairOf(bs)
                                  THEN [@[i] EXCEPT !.minutes = bs.minutes]
                                  ELSE @[i]],
                    !.pairs = @ \ {PairOf(bs)}]
    ELSE [table |-> Append(st.table, StoredRow(st.table, bs)),
          pairs |-> st.pairs \cup {PairOf(bs)},
          count |-> st.count + 1]

RowByRowStep(st, bs) ==
    IF ViolatesUnique(st.table, bs)
    THEN [st EXCEPT !.pairs = @ \ {PairOf(bs)}]
    ELSE [table |-> Append(st.table, StoredRow(st.table, bs)),
          pairs |-> st.pairs \cup {PairOf(bs)},
          count |-> st.count + 1]

\* line 419, for bs in final_box_scores: a left fold of RowByRowStep
RECURSIVE RowByRow(_, _)
RowByRow(st, objs) ==
    IF objs = <<>> THEN st
    ELSE IF Len(objs) = 1 THEN RowByRowStep(st, objs[1])
    ELSE LET half == Len(objs) \div 2
             first == RowByRow(st, SubSeq(objs, 1, half))
         IN  \* the first half is done, whatever it counted, before the second
             IF first.count \in Nat
             THEN RowByRow(first, SubSeq(objs, half + 1, Len(objs)))
             ELSE first

\* lines 363-366: candidates whose pair the session set holds are dropped
NewBoxScores(objs, pairs) == SelectSeq(objs, LAMBDA bs : PairOf(bs) \notin pairs)

\* lines 373-393: the pairs the existence query finds in the table
ExistingPairs(table, objs) ==
    IF Cardinality(PairsOf(objs)) > db_check_threshold THEN {}
    ELSE PairsOf(objs) \cap PairsOf(table)

\* lines 396-399
FinalBoxScores(table, objs, pairs) ==
    LET new_box_scores == NewBoxScores(objs, pairs)
        existing_pairs == ExistingPairs(table, new_box_scores)
    IN  SelectSeq(new_box_scores, LAMBDA bs : PairOf(bs) \notin existing_pairs)

\* lines 401-433, the call from final_box_scores on: the table and the pair
\* set after it, the count returned and the path taken
WriteFinal(table, pairs, final_box_scores) ==
    LET tracked == pairs \cup PairsOf(final_box_scores)
        bulk == BulkInsert(table, final_box_scores)
    IN  IF final_box_scores = <<>>
        THEN [table |-> table, pairs |-> pairs, count |-> 0, path |-> "dropped_all",
              raised |-> FALSE]
        ELSE IF bulk.ok
        THEN [table |-> bulk.table, pairs |-> tracked,
              count |-> Len(final_box_scores), path |-> "bulk", raised |-> FALSE]
        ELSE LET st == RowByRow([table |-> table, pairs |-> tracked, count |-> 0],
                                final_box_scores)
             IN  [table |-> st.table, pairs |-> st.pairs, count |-> st.count,
                  path |-> "row_by_row", raised |-> FALSE]

\* the whole call
BatchInsert(table, objs, pairs) ==
    WriteFinal(table, pairs, FinalBoxScores(table, objs, pairs))

\* the whole call when the connection to the store is lost after the
\* existence query: bulk_save_objects raises (line 412), the handler of line
\* 415 catches it and calls db.rollback(), which raises on some drivers and
\* returns on others; when it returns, add and commit raise for every row
\* (lines 421-422) and the handler of line 425 discards the row's pair and
\* goes on, so that the call returns 0
BatchInsertLost(table, objs, pairs, rollback_raises) ==
    LET final_box_scores == FinalBoxScores(table, objs, pairs)
        tracked == pairs \cup PairsOf(final_box_scores)
    IN  IF final_box_scores = <<>>
        THEN [table |-> table, pairs |-> pairs, count |-> 0, path |-> "dropped_all",
              raised |-> FALSE]
        ELSE IF rollback_raises
        THEN [table |-> table, pairs |-> tracked, count |-> 0, path |-> "lost",
              raised |-> TRUE]
        ELSE [table |-> table, pairs |-> tracked \ PairsOf(final_box_scores),
              count |-> 0, path |-> "lost", raised |-> FALSE]

\* what a writer call was given and what it did
CallRecord(table, objs, pairs, res) ==
    [n |-> Len(objs),
     distinct |-> Cardinality(PairsOf(objs)) = Len(objs),
     violating |-> Cardinality({i \in DOMAIN objs : ViolatesUnique(table, objs[i])}),
     tracked |-> Cardinality({i \in DOMAIN objs : PairOf(objs[i]) \in pairs}),
     added |-> Len(res.table) - Len(table),
     returned |-> res.count,
     path |-> res.path,
     raised |-> res.raised]

NoCall ==
    [n |-> 0, distinct |-> TRUE, violating |-> 0, tracked |-> 0, added |-> 0,
     returned |-> 0, path |-> "none", raised |-> FALSE]

\* BoxScore objects offered to the writer: a few pairs, one of them also with
\* unparsed minutes
Candidates ==
    [game_id : {1}, player_id : 1..2, minutes : {750}]
    \cup {[game_id |-> 1, player_id |-> 1, minutes |-> NULL]}

\* a candidate list of more than db_check_threshold distinct pairs
BigBatch ==
    [i \in 1..(2 * BigPlayers) |->
        [game_id |-> 1 + ((i - 1) \div BigPlayers),
         player_id |-> 1 + ((i - 1) % BigPlayers),
         minutes |-> 750]]

CandidateLists == (SeqsUpTo(Candidates, MaxBatch) \ {<<>>}) \cup {BigBatch}

\* the candidate lists of the calls during which the connection is lost:
\* those of one candidate, and the large one
LostLists == {objs \in CandidateLists : Len(objs) = 1 \/ objs = BigBatch}

WriteBudget == w_calls < MaxWrites

\* _batch_insert_box_scores_optimized(objs, db, inserted_pairs) with the
\* session's pair set
WriterInsert(objs) ==
    /\ WriteBudget
    /\ LET res == BatchInsert(box_scores, objs, inserted_pairs)
       IN  /\ box_scores' = res.table
           /\ inserted_pairs' = res.pairs
           /\ w_last' = CallRecord(box_scores, objs, inserted_pairs, res)
    /\ w_calls' = w_calls + 1
    /\ UNCHANGED <<teams, players, games, clientVars, fetchVars, discVars, runVars>>

\* the same call, during which the connection to the store is lost
WriterInsertLost(objs, rollback_raises) ==
    /\ WriteBudget
    /\ LET res == BatchInsertLost(box_scores, objs, inserted_pairs, rollback_raises)
       IN  /\ box_scores' = res.table
           /\ inserted_pairs' = res.pairs
           /\ w_last' = CallRecord(box_scores, objs, inserted_pairs, res)
    /\ w_calls' = w_calls + 1
    /\ UNCHANGED <<teams, players, games, clientVars, fetchVars, discVars, runVars>>

\* lines 436-439: _batch_insert_box_scores, the writer on a pair set of its own
LegacyInsert(objs) ==
    /\ WriteBudget
    /\ LET res == BatchInsert(box_scores, objs, {})
       IN  /\ box_scores' = res.table
           /\ w_last' = CallRecord(box_scores, objs, {}, res)
    /\ w_calls' = w_calls + 1
    /\ UNCHANGED <<inserted_pairs, teams, players, games, clientVars, fetchVars,
                   discVars, runVars>>

\* line 555, inserted_pairs.clear(); also the empty set a later run starts
\* with (line 511)
ClearPairs ==
    /\ inserted_pairs # {}
    /\ inserted_pairs' = {}
    /\ UNCHANGED <<w_last, w_calls, storeVars, clientVars, fetchVars, discVars, runVars>>

-----------------------------------------------------------------------------
(* Single-row ingest: ingest_box_score, ingest.py:190-275 *)

\* dict.get(key) on a map from names to ids
Get(map, key) == IF key \in DOMAIN map THEN map[key] ELSE NoId

\* lines 223-251 and 300-325: minutes from the payload's text, in seconds.
\* "12:30" has two parts, float("12") + float("30") / 60.0; "35" is all
\* digits, float("35"); "DNP", "0-57", "1:02:03" and None give None.
ParseMinutes(text) ==
    CASE text = "12:30" -> 750
      [] text = "35" -> 2100
      [] OTHER -> NULL

\* the name-to-id map the box-score rows are resolved with
KnownPlayers == ("A" :> 1) @@ ("B" :> 2)

\* box-score payload rows: a known or unknown player, minutes text
BoxScoreRows == [playerName : {"A", "B", "Z", ""}, minutes : {"12:30", "DNP"}]

\* lines 214-221: the existence query
ExistingBoxScore(table, game_id, player_id) ==
    <<game_id, player_id>> \in PairsOf(table)

\* the table after ingest_box_score(row, game_id, player_map, db)
IngestBoxScoreRow(table, row, game_id, players_by_name) ==
    LET player_id == Get(players_by_name, row.playerName)
        bs == [game_id |-> game_id, player_id |-> player_id,
               minutes |-> ParseMinutes(row.minutes)]
    IN  IF row.playerName = "" \/ player_id = NoId THEN table
        ELSE IF ExistingBoxScore(table, game_id, player_id) THEN table
        ELSE IF ViolatesUnique(table, bs) THEN table
        ELSE Append(table, StoredRow(table, bs))

IngestBoxScore(row, game_id) ==
    /\ WriteBudget
    /\ box_scores' = IngestBoxScoreRow(box_scores, row, game_id, KnownPlayers)
    /\ w_calls' = w_calls + 1
    /\ UNCHANGED <<w_last, inserted_pairs, teams, players, games, clientVars,
                   fetchVars, discVars, runVars>>

-----------------------------------------------------------------------------
(* Entity resolvers: ingest_teams, ingest_players, ingest_game *)

\* a dict with no key
EmptyMap == [key \in {} |-> NoId]

\* a name is the sequence of its words, so that name.split()[-1] is its last
Word(names) == names[Len(names)]

Lakers == <<"Los", "Angeles", "Lakers">>
Celtics == <<"Boston", "Celtics">>

\* a team payload; conference "" is a payload without the key
TeamPayload(abbreviation, name, city) ==
    [abbreviation |-> abbreviation, name |-> name, city |-> city, conference |-> ""]

\* lines 577-583
basic_teams ==
    << TeamPayload("LAL", Lakers, "Los Angeles"),
       TeamPayload("GSW", <<"Golden", "State", "Warriors">>, "San Francisco"),
       TeamPayload("BOS", Celtics, "Boston"),
       TeamPayload("MIA", <<"Miami", "Heat">>, "Miami"),
       TeamPayload("DEN", <<"Denver", "Nuggets">>, "Denver") >>

\* lines 25-57, the loop body of ingest_teams.  st is [table, team_map,
\* crashed]: db.flush() raises IntegrityError when the new row's name is the
\* name of a row with another abbreviation (models.py:13)
TeamStepOverwrites(st, team_data) ==
    LET abbreviation == team_data.abbreviation
        name == team_data.name
        existing_team == {i \in DOMAIN st.table : st.table[i].abbreviation = abbreviation}
    IN  IF st.crashed \/ abbreviation = "" \/ name = <<>> THEN st
        ELSE IF existing_team # {}
        THEN [st EXCEPT
                 !.table = [i \in DOMAIN @ |->
                               IF i \in existing_team
                               THEN [@[i] EXCEPT !.name = name, !.city = team_data.city,
                                                 !.conference = team_data.conference]
                               ELSE @[i]],
                 !.team_map =
                     (abbreviation :> st.table[CHOOSE i \in existing_team : TRUE].id) @@ @]
        ELSE [st EXCEPT
                 !.table = Append(@, [id |-> Len(@) + 1, name |-> name,
                                      abbreviation |-> abbreviation,
                                      city |-> team_data.city,
                                      conference |-> team_data.conference]),
                 !.team_map = (abbreviation :> Len(st.table) + 1) @@ @]
TeamStep(st, team_data) ==
    LET abbreviation == team_data.abbreviation
        name == team_data.name
        existing_team == {i \in DOMAIN st.table : st.table[i].abbreviation = abbreviation}
    IN  IF st.crashed \/ abbreviation = "" \/ name = <<>> THEN st
        ELSE IF existing_team # {}
        THEN [st EXCEPT !.team_map =
                 (abbreviation :> st.table[CHOOSE i \in existing_team : TRUE].id) @@ @]
        ELSE IF \E i \in DOMAIN st.table : st.table[i].name = name
        THEN [st EXCEPT !.crashed = TRUE]
        ELSE [st EXCEPT
                 !.table = Append(@, [id |-> Len(@) + 1, name |-> name,
                                      abbreviation |-> abbreviation,
                                      city |-> IF team_data.city # "" THEN team_data.city
                                               ELSE Word(name),
                                      conference |-> team_data.conference]),
                 !.team_map = (abbreviation :> Len(st.table) + 1) @@ @]

RECURSIVE TeamSteps(_, _)
TeamSteps(st, teams_data) ==
    IF teams_data = <<>> THEN st
    ELSE TeamSteps(TeamStep(st, Head(teams_data)), Tail(teams_data))

\* ingest_teams(teams_data, db): db.commit() is its last statement, so a call
\* that raises leaves the table as it was
IngestTeams(table, teams_data) ==
    LET st == TeamSteps([table |-> table, team_map |-> EmptyMap, crashed |-> FALSE],
                        teams_data)
    IN  IF st.crashed THEN [st EXCEPT !.table = table] ELSE st

\* lines 77-116, the loop body of ingest_players.  st is [table, player_map]
PlayerStep(st, player_data, teams_by_abbr) ==
    LET name == player_data.name
        existing_player == {i \in DOMAIN st.table : st.table[i].name = name}
        first == CHOOSE i \in existing_player : \A j \in existing_player : i <= j
        team_abbr == player_data.teamAbbreviation
    IN  IF name = "" THEN st
        ELSE IF existing_player # {}
        THEN [st EXCEPT !.player_map = (name :> st.table[first].id) @@ @]
        ELSE [table |-> Append(st.table,
                               [id |-> Len(st.table) + 1, name |-> name,
                                team_id |-> IF team_abbr # "" THEN Get(teams_by_abbr, team_abbr)
                                            ELSE NoId]),
              player_map |-> (name :> Len(st.table) + 1) @@ st.player_map]

RECURSIVE IngestPlayers(_, _, _)
IngestPlayers(st, players_data, teams_by_abbr) ==
    IF players_data = <<>> THEN st
    ELSE IngestPlayers(PlayerStep(st, Head(players_data), teams_by_abbr),
                       Tail(players_data), teams_by_abbr)

\* no date: the payload has none, or strptime raised
NoDate == [year |-> 0, month |-> 0, day |-> 0]

\* line 144, datetime.strptime(text, "%Y-%m-%d").date(): a date when the
\* text's fields name one
ParseGameDate(text) ==
    IF /\ text.year \in 1..9999
       /\ text.month \in 1..12
       /\ text.day \in 1..DaysInMonth(text.year, text.month)
    THEN Date(text.year, text.month, text.day)
    ELSE NoDate

Chars == <<"0", "1", "2", "3", "4", "5", "6", "7", "8", "9">>

\* str(n) and f"{n}" of a natural number: its decimal digits
RECURSIVE Str(_)
Str(n) == IF n < 10 THEN <<Chars[n + 1]>> ELSE Str(n \div 10) \o <<Chars[(n % 10) + 1]>>

\* text[2:]
From2(text) == SubSeq(text, 3, Len(text))

\* line 171
IsOctoberOrLater(month) == month >= 10

\* lines 171-174
SeasonOf(game_date) ==
    IF IsOctoberOrLater(game_date.month)
    THEN Str(game_date.year) \o <<"-">> \o From2(Str(game_date.year + 1))
    ELSE Str(game_date.year - 1) \o <<"-">> \o From2(Str(game_date.year))

\* lines 161-165, the existence query
ExistingGameNever(table, game_date, home_team_id, away_team_id) == {}
ExistingGame(table, game_date, home_team_id, away_team_id) ==
    {i \in DOMAIN table : /\ table[i].game_date = game_date
                          /\ table[i].home_team_id = home_team_id
                          /\ table[i].away_team_id = away_team_id}

\* ingest_game(game_data, team_map, db): the table after the call and the id
\* returned, NoId for None
IngestGame(table, game_data, teams_by_abbr) ==
    LET game_date == ParseGameDate(game_data.gameDate)
        home_team_id == IF game_data.homeTeam # "" THEN Get(teams_by_abbr, game_data.homeTeam)
                        ELSE NoId
        away_team_id == IF game_data.awayTeam # "" THEN Get(teams_by_abbr, game_data.awayTeam)
                        ELSE NoId
        existing_game == ExistingGame(table, game_date, home_team_id, away_team_id)
        first == CHOOSE i \in existing_game : \A j \in existing_game : i <= j
    IN  IF game_data.gameDate = NoDate \/ game_date = NoDate
        THEN [table |-> table, id |-> NoId, created |-> FALSE]
        ELSE IF home_team_id = NoId \/ away_team_id = NoId
        THEN [table |-> table, id |-> NoId, created |-> FALSE]
        ELSE IF existing_game # {}
        THEN [table |-> table, id |-> table[first].id, created |-> FALSE]
        ELSE [table |-> Append(table,
                               [id |-> Len(table) + 1, game_date |-> game_date,
                                season |-> SeasonOf(game_date),
                                home_team_id |-> home_team_id,
                                away_team_id |-> away_team_id,
                                home_score |-> game_data.homeScore,
                                away_score |-> game_data.awayScore]),
              id |-> Len(table) + 1, created |-> TRUE]

\* team lists offered to ingest_teams: one with a payload without
\* abbreviation and with the Lakers' name under another abbreviation, one
\* that names the Lakers' abbreviation with another name, city and conference
TeamLists ==
    { << TeamPayload("LAL", Lakers, "Los Angeles"), TeamPayload("BOS", Celtics, "") >>,
      << TeamPayload("BOS", Celtics, "Boston"), TeamPayload("", Celtics, "Boston"),
         TeamPayload("LAX", Lakers, "") >>,
      << [TeamPayload("LAL", <<"LA", "Lakers">>, "LA") EXCEPT !.conference = "West"] >> }

\* a season text in the payload, which ingest_game does not read
SeasonTexts == {<<>>, <<"1", "9", "9", "9", "-", "0", "0">>}

GameYears == {999, 1999, 2024, 9999}

\* the gameDate of a payload: dates of both halves of the year, the last
\* day of September, days that do not exist, none
GameDates ==
    {Date(y, m, 15) : y \in GameYears, m \in {1, 10}}
    \cup {Date(2024, 11, 2), Date(2023, 9, 30), Date(2023, 12, 31),
          Date(2024, 2, 30), NoDate}

GamePayload(gameId, gameDate, homeTeam, awayTeam, score, season) ==
    [gameId |-> gameId, gameDate |-> gameDate, homeTeam |-> homeTeam,
     awayTeam |-> awayTeam, homeScore |-> score, awayScore |-> score,
     season |-> season]

GamePayloads ==
    {GamePayload(1, dt, "LAL", "BOS", NULL, <<>>) : dt \in GameDates}
    \cup {GamePayload(1, dt, "LAL", "BOS", NULL, st) :
             dt \in {Date(2024, 1, 15), Date(2024, 11, 2)}, st \in SeasonTexts}
    \cup {GamePayload(1, Date(2024, 1, 15), home, "LAL", 100, <<>>) : home \in {"ZZZ", "", "BOS"}}
    \cup {GamePayload(1, Date(2024, 1, 15), "LAL", "BOS", 100, <<>>)}

NoGameCall == [payload |-> GamePayload(NoId, NoDate, "", "", NULL, <<>>),
               id |-> NoId, created |-> FALSE]

\* ingest_teams(teams_data, db)
CallIngestTeams(teams_data) ==
    /\ LET res == IngestTeams(teams, teams_data)
       IN  /\ teams' = res.table
           /\ team_map' = IF res.crashed THEN team_map ELSE res.team_map
    /\ UNCHANGED <<players, games, box_scores, player_map, game_id_map, g_last,
                   g_calls, orchVars, clientVars, fetchVars, discVars, writerVars>>

\* ingest_game(game_data, team_map, db)
CallIngestGame(game_data) ==
    /\ Len(games) < MaxGames
    /\ LET res == IngestGame(games, game_data, team_map)
       IN  /\ games' = res.table
           /\ g_last' = [payload |-> game_data, id |-> res.id, created |-> res.created]
    /\ UNCHANGED <<teams, players, box_scores, team_map, player_map, game_id_map,
                   g_calls, orchVars, clientVars, fetchVars, discVars, writerVars>>

\* the processes that run the ingestion on one store at the same time
IngestionProcesses == {"a", "b"}

NoGameRow == [id |-> NoId]

\* the payloads the processes ingest: two games, one of them also with its
\* scores, and a payload without date
RacePayloads ==
    {GamePayload(1, dt, "LAL", "BOS", NULL, <<>>) :
        dt \in {Date(2024, 1, 15), Date(2024, 11, 2), NoDate}}
    \cup {GamePayload(1, Date(2024, 1, 15), "LAL", "BOS", 100, <<>>)}

\* no ingest_game call in progress
NoGameCalls == [proc \in IngestionProcesses |-> [pc |-> "idle", payload |-> NoGameCall.payload,
                                                  row |-> NoGameRow]]

\* ingest_game in one of several processes, lines 131-174: the payload is
\* read and the existence query is answered from the rows committed so far;
\* the call returns here when it has no date, no team or an existing row
IngestGameCheck(proc, game_data) ==
    /\ Len(games) < MaxGames
    /\ g_calls[proc].pc = "idle"
    /\ LET res == IngestGame(games, game_data, team_map)
       IN  IF res.created
           THEN /\ g_calls' = [g_calls EXCEPT ![proc] =
                                  [pc |-> "checked", payload |-> game_data,
                                   row |-> res.table[Len(res.table)]]]
                /\ UNCHANGED g_last
           ELSE /\ g_last' = [payload |-> game_data, id |-> res.id, created |-> FALSE]
                /\ UNCHANGED g_calls
    /\ UNCHANGED <<storeVars, team_map, player_map, game_id_map,
                   orchVars, clientVars, fetchVars, discVars, writerVars>>

\* lines 176-187: db.add(game), db.commit(), db.refresh(game); the table has
\* no constraint on (date, home_team_id, away_team_id) (models.py:42-58), so
\* the insert commits whatever the other process has committed since the
\* query
IngestGameInsert(proc) ==
    /\ g_calls[proc].pc = "checked"
    /\ games' = Append(games, [g_calls[proc].row EXCEPT !.id = Len(games) + 1])
    /\ g_last' = [payload |-> g_calls[proc].payload, id |-> Len(games) + 1,
                  created |-> TRUE]
    /\ g_calls' = [g_calls EXCEPT ![proc] = NoGameCalls[proc]]
    /\ UNCHANGED <<teams, players, box_scores, team_map, player_map, game_id_map,
                   orchVars, clientVars, fetchVars, discVars, writerVars>>

-----------------------------------------------------------------------------
(* The orchestrator: ingest_from_nba_api, ingest.py:442-572 *)

\* line 509
batch_size == 200
\* line 548: the pair set is cleared after every this many games
clear_every == 200

\* None where a BoxScore object is expected
NoObject == [game_id |-> NoId, player_id |-> NoId, minutes |-> NULL]

\* _create_box_score_object(box_score_data, game_id, player_map, db),
\* lines 278-345
CreateBoxScoreObject(box_score_data, game_id, players_by_name) ==
    LET player_id == Get(players_by_name, box_score_data.playerName)
    IN  IF box_score_data.playerName = "" \/ player_id = NoId THEN NoObject
        ELSE [game_id |-> game_id, player_id |-> player_id,
              minutes |-> ParseMinutes(box_score_data.minutes)]

\* the date of the g-th game of a long season: 28 game days in each month
\* from October 2023 on
SeasonMonths == <<10, 11, 12, 1, 2, 3, 4, 5>>
SeasonDay(g) ==
    LET m == SeasonMonths[1 + ((g - 1) \div 28)]
    IN  Date(IF m >= 10 THEN 2023 ELSE 2024, m, 1 + ((g - 1) % 28))

PlayerPayload(name, teamAbbreviation) ==
    [name |-> name, teamAbbreviation |-> teamAbbreviation]

Played(name) == [PLAYER_NAME |-> name, MIN |-> "12:30"]

TwoTeams ==
    << TeamPayload("LAL", Lakers, "Los Angeles"), TeamPayload("BOS", Celtics, "Boston") >>

TwoPlayers == << PlayerPayload("A", "LAL"), PlayerPayload("B", "") >>

\* A few games: the third has the date and the teams of the first under
\* another upstream id, the fourth a team the store does not know, the fifth
\* no upstream id.  Rows of players who did not play and of a player the
\* store does not know.
FewGames ==
    [teams |-> TwoTeams,
     players |-> TwoPlayers \o << PlayerPayload("", "LAL"), PlayerPayload("A", "BOS") >>,
     games |-> << GamePayload(1, Date(2023, 10, 24), "LAL", "BOS", 100, <<>>),
                  GamePayload(2, Date(2024, 1, 15), "BOS", "LAL", NULL, <<>>),
                  GamePayload(3, Date(2023, 10, 24), "LAL", "BOS", 100, <<>>),
                  GamePayload(4, Date(2024, 1, 16), "ZZZ", "LAL", NULL, <<>>),
                  GamePayload(NoId, Date(2024, 1, 17), "BOS", "LAL", NULL, <<>>) >>,
     frames |-> (1 :> << Played("A"), [PLAYER_NAME |-> "B", MIN |-> "DNP"], Played("Z") >>)
                @@ (2 :> << [PLAYER_NAME |-> "A", MIN |-> "None"], Played("B") >>)
                @@ (3 :> << Played("A"), Played("B") >>)]

\* a long season of single rows; the first game's fetch gives nothing
LongSeason ==
    [teams |-> TwoTeams,
     players |-> TwoPlayers,
     games |-> [g \in 1..ManyGames |->
                   GamePayload(g, SeasonDay(g), "LAL", "BOS", NULL, <<>>)],
     frames |-> [g \in 2..ManyGames |-> << Played("A") >>]]

\* a season whose rows fill a batch
FullBatches ==
    [teams |-> TwoTeams,
     players |-> TwoPlayers,
     games |-> [g \in 1..FullGames |->
                   GamePayload(g, SeasonDay(g), "BOS", "LAL", NULL, <<>>)],
     frames |-> [g \in 1..FullGames |-> << Played("A"), Played("B") >>]]

\* get_teams, get_players or the schedule walk returned nothing; two teams
\* of one name
NoTeams == [FewGames EXCEPT !.teams = <<>>]
NoPlayers == [FewGames EXCEPT !.players = <<>>]
NoGames == [FewGames EXCEPT !.games = <<>>]
SameName ==
    [FewGames EXCEPT !.teams = TwoTeams \o << TeamPayload("LAX", Lakers, "") >>]

Upstreams == {FewGames, LongSeason, FullBatches, NoTeams, NoPlayers, NoGames, SameName}

\* client.get_box_score(nba_game_id), line 520, by what the upstream holds
\* for the game: nothing when every attempt fails or the game is not found
FetchedBoxScores(up, nba_game_id) ==
    IF nba_game_id \in DOMAIN up.frames THEN BoxScoresData(up.frames[nba_game_id])
    ELSE <<>>

\* game_id_map[nba_game_id] = db_game_id on a dict that keeps insertion order
SetItem(map, key, value) ==
    IF \E i \in DOMAIN map : map[i].key = key
    THEN [i \in DOMAIN map |-> IF map[i].key = key THEN [key |-> key, value |-> value]
                               ELSE map[i]]
    ELSE Append(map, [key |-> key, value |-> value])

RowCounts(t, p, g, b) ==
    [teams |-> Len(t), players |-> Len(p), games |-> Len(g), box_scores |-> Len(b)]

\* the run is over: the counts of the store after the first run are kept
RunEnds(how) ==
    /\ opc' = how
    /\ first_counts' = IF run = 1 THEN RowCounts(teams', players', games', box_scores')
                       ELSE first_counts

\* a call of the writer from the run (lines 536, 551, 560) on the batch
FlushBatch(objs, pairs) ==
    LET res == BatchInsert(box_scores, objs, pairs)
    IN  /\ box_scores' = res.table
        /\ box_score_count' = box_score_count + res.count
        /\ w_last' = CallRecord(box_scores, objs, pairs, res)
        /\ w_calls' = w_calls + 1

\* lines 464-475: a run begins, with a session and a client of its own;
\* step 1, the teams
OrchTeams ==
    /\ opc \in {"idle", "done", "crashed", "interrupted"}
    /\ run < MaxRuns
    /\ run' = run + 1
    /\ LET teams_data == upstream.teams
           res == IngestTeams(teams, IF teams_data # <<>> THEN teams_data ELSE basic_teams)
       IN  /\ teams' = res.table
           /\ team_map' = IF res.crashed THEN EmptyMap ELSE res.team_map
           /\ opc' = IF res.crashed THEN "crashed" ELSE "players"
           /\ first_counts' = IF res.crashed /\ run = 0
                              THEN RowCounts(teams, players, games, box_scores)
                              ELSE first_counts
    /\ player_map' = EmptyMap
    /\ game_id_map' = <<>>
    /\ idx' = 0
    /\ rows_left' = <<>>
    /\ batch' = <<>>
    /\ box_score_count' = 0
    /\ appended' = {}
    /\ fetched' = <<>>
    /\ UNCHANGED <<players, games, box_scores, g_last, g_calls, upstream, interrupts, clientVars,
                   fetchVars, discVars, writerVars>>

\* lines 479-485: step 2, the players
OrchPlayers ==
    /\ opc = "players"
    /\ LET players_data == upstream.players
           st == IngestPlayers([table |-> players, player_map |-> EmptyMap],
                               players_data, team_map)
       IN  /\ players' = st.table
           /\ player_map' = st.player_map
    /\ opc' = "games"
    /\ UNCHANGED <<teams, games, box_scores, team_map, game_id_map, g_last, g_calls, run,
                   upstream, idx, rows_left, batch, box_score_count, appended,
                   first_counts, fetched, interrupts, clientVars, fetchVars, discVars, writerVars>>

\* lines 494-500: step 3, one game of games_data
OrchGame ==
    /\ opc = "games"
    /\ idx < Len(upstream.games)
    /\ LET game_data == upstream.games[idx + 1]
           res == IngestGame(games, game_data, team_map)
       IN  /\ games' = res.table
           /\ g_last' = [payload |-> game_data, id |-> res.id, created |-> res.created]
           /\ game_id_map' = IF res.id # NoId /\ game_data.gameId # NoId
                             THEN SetItem(game_id_map, game_data.gameId, res.id)
                             ELSE game_id_map
    /\ idx' = idx + 1
    /\ UNCHANGED <<teams, players, box_scores, team_map, player_map, g_calls, opc, run,
                   upstream, rows_left, batch, box_score_count, appended,
                   first_counts, fetched, interrupts, clientVars, fetchVars, discVars, writerVars>>

\* lines 490, 505-511 and 564-567: after the games, step 4 begins with an
\* empty batch and an empty pair set, or is skipped
OrchGamesDone ==
    /\ opc = "games"
    /\ idx = Len(upstream.games)
    /\ UNCHANGED <<storeVars, mapVars, run, upstream, rows_left, appended,
                   fetched, interrupts, w_last, w_calls, clientVars, fetchVars,
                   discVars>>
    /\ IF game_id_map # <<>> /\ player_map # EmptyMap
       THEN /\ opc' = "box_scores"
            /\ inserted_pairs' = {}
            /\ UNCHANGED first_counts
       ELSE /\ RunEnds("done")
            /\ UNCHANGED inserted_pairs
    /\ idx' = 0
    /\ batch' = <<>>
    /\ box_score_count' = 0

\* line 514: the for loop over game_id_map.items() has a next item after i
LoopStopsOneShort(i, map) == i < Len(map) - 1
LoopHasNext(i, map) == i < Len(map)

\* what a get_box_score call gives the run: the rows the upstream holds, or
\* nothing after a not-found error or a last attempt that failed
FetchResults == {"rows", "nothing"}

\* the upstreams whose box-score fetches can fail; the long seasons answer
\* every fetch, which keeps their behaviours few
FlakyUpstreams == Upstreams \ {LongSeason, FullBatches}

\* lines 514-521: the next game of game_id_map and its fetch
OrchFetch(result) ==
    /\ opc = "box_scores"
    /\ result = "rows" \/ upstream \in FlakyUpstreams
    /\ LoopHasNext(idx, game_id_map)
    /\ idx' = idx + 1
    /\ fetched' = Append(fetched, game_id_map[idx + 1].key)
    /\ rows_left' = IF result = "rows"
                    THEN FetchedBoxScores(upstream, game_id_map[idx + 1].key)
                    ELSE <<>>
    /\ opc' = "rows"
    /\ UNCHANGED <<storeVars, mapVars, run, upstream, batch, box_score_count,
                   appended, first_counts, interrupts, clientVars, fetchVars,
                   discVars, writerVars>>

\* lines 524-544: one row of box_scores_data
OrchRow ==
    /\ opc = "rows"
    /\ rows_left # <<>>
    /\ rows_left' = Tail(rows_left)
    /\ LET box_score_obj == CreateBoxScoreObject(Head(rows_left), game_id_map[idx].value,
                                                 player_map)
           pair == PairOf(box_score_obj)
           longer == Append(batch, box_score_obj)
       IN  IF box_score_obj = NoObject \/ pair \in inserted_pairs
           THEN UNCHANGED <<box_scores, inserted_pairs, batch, box_score_count,
                            appended, w_last, w_calls>>
           ELSE /\ appended' = appended \cup {pair}
                /\ IF Len(longer) >= batch_size
                   THEN /\ FlushBatch(longer, inserted_pairs \cup {pair})
                        /\ inserted_pairs' =
                               BatchInsert(box_scores, longer, inserted_pairs \cup {pair}).pairs
                        /\ batch' = <<>>
                   ELSE /\ batch' = longer
                        /\ inserted_pairs' = inserted_pairs \cup {pair}
                        /\ UNCHANGED <<box_scores, box_score_count, w_last, w_calls>>
    /\ UNCHANGED <<teams, players, games, mapVars, opc, run, upstream, idx,
                   first_counts, fetched, interrupts, clientVars, fetchVars, discVars>>

\* lines 548-556: after the rows of a game, the periodic clear
OrchEndOfGame ==
    /\ opc = "rows"
    /\ rows_left = <<>>
    /\ opc' = "box_scores"
    /\ IF idx % clear_every = 0
       THEN /\ IF batch # <<>>
               THEN FlushBatch(batch, inserted_pairs)
               ELSE UNCHANGED <<box_scores, box_score_count, w_last, w_calls>>
            /\ batch' = <<>>
            /\ inserted_pairs' = {}
       ELSE UNCHANGED <<box_scores, inserted_pairs, batch, box_score_count,
                        w_last, w_calls>>
    /\ UNCHANGED <<teams, players, games, mapVars, run, upstream, idx, rows_left,
                   appended, first_counts, fetched, interrupts, clientVars, fetchVars, discVars>>

\* lines 559-569: the remaining box scores, and the run is over
OrchFinal ==
    /\ opc = "box_scores"
    /\ ~LoopHasNext(idx, game_id_map)
    /\ UNCHANGED <<teams, players, games, mapVars, run, upstream, idx, rows_left,
                   batch, appended, fetched, interrupts, clientVars, fetchVars,
                   discVars>>
    /\ IF batch # <<>>
       THEN /\ FlushBatch(batch, inserted_pairs)
            /\ inserted_pairs' = BatchInsert(box_scores, batch, inserted_pairs).pairs
       ELSE UNCHANGED <<box_scores, inserted_pairs, box_score_count, w_last, w_calls>>
    /\ RunEnds("done")

\* the process is killed between two steps of a run: what the run committed
\* stays in the store, and a later run begins with a session of its own
OrchInterrupt ==
    /\ opc \in {"players", "games", "box_scores", "rows"}
    /\ interrupts < MaxInterrupts
    /\ interrupts' = interrupts + 1
    /\ opc' = "interrupted"
    /\ UNCHANGED <<storeVars, mapVars, run, upstream, idx, rows_left, batch,
                   box_score_count, appended, first_counts, fetched, clientVars,
                   fetchVars, discVars, writerVars>>

-----------------------------------------------------------------------------
(* Initial states and specifications *)

InitFetch ==
    /\ fpc = "idle"
    /\ f_game_id = ""
    /\ f_max_retries = 0
    /\ attempt = 0
    /\ f_acquires = 0
    /\ f_requests = 0
    /\ f_failed = 0
    /\ f_last = "none"
    /\ f_backoff = 0
    /\ f_result = <<>>

InitClient ==
    /\ client = NewClient
    /\ rl_pause = 0
    /\ rl_delay = 0

InitDiscover ==
    /\ dpc = "idle"
    /\ schedule = [first |-> 0, gap |-> 1, last |-> 999, busy |-> "games", idle |-> "empty"]
    /\ start_date = Date(2023, 10, 1)
    /\ end_date = Date(2024, 6, 30)
    /\ current_date = Date(2023, 10, 1)
    /\ consecutive_empty_days = 0
    /\ all_games = <<>>
    /\ d_requests = 0
    /\ d_result = <<>>

\* an empty database and a new session
InitStore ==
    /\ teams = <<>>
    /\ players = <<>>
    /\ games = <<>>
    /\ box_scores = <<>>

InitWriter ==
    /\ inserted_pairs = {}
    /\ w_last = NoCall
    /\ w_calls = 0

\* no run yet
\* before the first run, against one of the upstreams ups
InitRunOf(ups) ==
    /\ team_map = EmptyMap
    /\ player_map = EmptyMap
    /\ game_id_map = <<>>
    /\ g_last = NoGameCall
    /\ g_calls = NoGameCalls
    /\ opc = "idle"
    /\ run = 0
    /\ upstream \in ups
    /\ idx = 0
    /\ rows_left = <<>>
    /\ batch = <<>>
    /\ box_score_count = 0
    /\ appended = {}
    /\ first_counts = RowCounts(<<>>, <<>>, <<>>, <<>>)
    /\ fetched = <<>>
    /\ interrupts = 0

InitRun == InitRunOf({FewGames})

InitAll == InitClient /\ InitFetch /\ InitDiscover /\ InitStore /\ InitWriter /\ InitRun

ClientInit == InitAll

ClientNext ==
    \/ \E gid \in GameIds, n \in 0..MaxRetries : CallGetBoxScore(gid, n)
    \/ FetchAcquire
    \/ \E o \in Outcomes : FetchResponse(o)
    \/ \E o \in Outcomes : FetchError(o)
    \/ GetTeams

SpecClient == ClientInit /\ [][ClientNext]_vars

\* the limiter alone, from every state its counters can be in
LimiterInit ==
    /\ client \in LimiterStates
    /\ rl_pause = 0
    /\ rl_delay = 0
    /\ InitFetch /\ InitDiscover /\ InitStore /\ InitWriter /\ InitRun

LimiterNext == CallRateLimit

SpecLimiter == LimiterInit /\ [][LimiterNext]_vars

DiscoverInit == InitAll

DiscoverNext ==
    \/ \E y \in SeasonStartYears, sch \in Schedules : CallGetGamesForSeason(y, sch)
    \/ WalkDay
    \/ StopEarly
    \/ ReachEnd

SpecDiscover == DiscoverInit /\ [][DiscoverNext]_vars

WriterInit == InitAll

WriterNext ==
    \/ \E objs \in CandidateLists : WriterInsert(objs)
    \/ \E objs \in CandidateLists : LegacyInsert(objs)
    \/ \E objs \in LostLists, rollback_raises \in BOOLEAN :
           WriterInsertLost(objs, rollback_raises)
    \/ ClearPairs
    \/ \E row \in BoxScoreRows : IngestBoxScore(row, 1)

SpecWriter == WriterInit /\ [][WriterNext]_vars

ResolverInit == InitAll

ResolverNext ==
    \/ \E teams_data \in TeamLists : CallIngestTeams(teams_data)
    \/ \E game_data \in GamePayloads : CallIngestGame(game_data)

SpecResolver == ResolverInit /\ [][ResolverNext]_vars

\* ingest_teams, and ingest_game called by two processes on one store
RaceInit == InitAll

RaceNext ==
    \/ \E teams_data \in TeamLists : CallIngestTeams(teams_data)
    \/ \E proc \in IngestionProcesses, game_data \in RacePayloads :
           IngestGameCheck(proc, game_data)
    \/ \E proc \in IngestionProcesses : IngestGameInsert(proc)

SpecRace == RaceInit /\ [][RaceNext]_vars

\* the orchestrator's runs, one after the other on one store, against an
\* upstream that serves the same data to each
Init ==
    /\ InitClient /\ InitFetch /\ InitDiscover /\ InitStore /\ InitWriter
    /\ InitRunOf(Upstreams)

Next ==
    \/ OrchTeams
    \/ OrchPlayers
    \/ OrchGame
    \/ OrchGamesDone
    \/ \E result \in FetchResults : OrchFetch(result)
    \/ OrchRow
    \/ OrchEndOfGame
    \/ OrchFinal

Spec == Init /\ [][Next]_vars

\* lines 514-561: the steps of the box-score loop and of what follows it
BoxScoreLoop ==
    \/ \E result \in FetchResults : OrchFetch(result)
    \/ OrchRow
    \/ OrchEndOfGame
    \/ OrchFinal

\* the runs against the small upstreams, when the process is scheduled: the loop of lines 514-561 is sequential code without a wait
\* of its own, so a step of it that can be taken is taken
SmallInit ==
    /\ InitClient /\ InitFetch /\ InitDiscover /\ InitStore /\ InitWriter
    /\ InitRunOf(FlakyUpstreams)

SpecFair == SmallInit /\ [][Next]_vars /\ WF_vars(BoxScoreLoop)

\* the runs against the small upstreams, some of them killed before their end
ResumeNext ==
    \/ Next
    \/ OrchInterrupt

SpecResume == SmallInit /\ [][ResumeNext]_vars

-----------------------------------------------------------------------------
(* Properties of the fetch client, checked under SpecClient *)

\* a step that is one _rate_limit call: only _rate_limit counts a request
IsAcquireStep == client'.request_count = client.request_count + 1

\* C4: for a well-formed game id and max_retries = N >= 1, a get_box_score call
\* whose every upstream request raised a retryable (transient) error has made
\* exactly N requests, each preceded by one _rate_limit call, and has returned
\* the empty list.
C4_RetryCeiling ==
    /\ f_acquires = f_requests + (IF fpc = "request" THEN 1 ELSE 0)
    /\ (/\ fpc = "returned"
        /\ ~InvalidGameId(f_game_id)
        /\ f_max_retries >= 1
        /\ f_failed = f_requests)
       => (/\ f_requests = f_max_retries
           /\ f_acquires = f_max_retries
           /\ f_result = <<>>)

\* C4 witness: a call with max_retries = 3 has returned after three transient
\* failures.
C4_Witness ==
    /\ fpc = "returned"
    /\ f_max_retries = 3
    /\ f_failed = 3
    /\ f_last \in {"timeout", "error"}

\* C5: a request that fails with a not-found/invalid error ends the call at
\* once with the empty list and leaves the client's counters, the failure
\* counter among them, as they were; the call has then made one request more
\* than it had retryable failures (one request when the first attempt fails
\* so), and makes no further request.
C5_NotFoundFastPath ==
    /\ [](fpc = "returned" /\ f_last = "not_found"
            => f_requests = f_failed + 1 /\ f_result = <<>>)
    /\ [][(fpc = "request" /\ f_last' = "not_found")
            => (/\ fpc' = "returned"
                /\ f_requests' = f_requests + 1
                /\ f_result' = <<>>
                /\ client' = client)]_vars
    /\ [][fpc = "returned" => f_requests' \in {f_requests, 0}]_vars

\* C5 witness: a call returned after a single request that failed not-found,
\* while the failure counter was not zero.
C5_Witness ==
    /\ fpc = "returned"
    /\ f_last = "not_found"
    /\ f_requests = 1
    /\ client.consecutive_failures > 0

\* C6 as stated: with the failure counter at 10 or more, the very next
\* _rate_limit call pauses 30 s and ends with the counter at 0.
C6_NextAcquirePauses ==
    [][(client.consecutive_failures >= 10 /\ IsAcquireStep)
        => (rl_pause' = Ticks(pause_time) /\ client'.consecutive_failures = 0)]_vars

\* C6 amended: the _rate_limit call that finds the counter at 10 or more with
\* the breaker closed only opens the breaker: it pauses for nothing, uses a
\* 10 s delay and leaves the counter as it is.  The breaker is open only with
\* the counter at 10 or more, and the next _rate_limit call after it opened
\* pauses 30 s, closes it and ends with the counter at 0.
C6_BreakerTrip ==
    /\ [](client.circuit_breaker_active => client.consecutive_failures >= 10)
    /\ [][IsAcquireStep =>
            /\ (client.circuit_breaker_active
                => (/\ rl_pause' = Ticks(pause_time)
                    /\ client'.consecutive_failures = 0
                    /\ ~client'.circuit_breaker_active))
            /\ (~client.circuit_breaker_active /\ client.consecutive_failures >= 10
                => (/\ rl_pause' = 0
                    /\ rl_delay' = Ticks(10)
                    /\ client'.circuit_breaker_active
                    /\ client'.consecutive_failures = client.consecutive_failures))]_vars

\* C6 witness: a _rate_limit call has paused 30 s and reset the counter.
C6_Witness ==
    /\ rl_pause = Ticks(pause_time)
    /\ client.consecutive_failures = 0
    /\ ~client.circuit_breaker_active
    /\ fpc = "request"

\* C26 as stated: a request that answered within the slow threshold, with
\* rows or without, leaves the slow-request counter one lower, or at 0.
C26_FastSuccessDecays ==
    [][(f_requests' = f_requests + 1 /\ f_last' \in {"fast", "empty"}) =>
          client'.slow_request_count =
              IF client.slow_request_count > 0 THEN client.slow_request_count - 1
              ELSE 0]_vars

\* C27: a request that answers with a data frame of zero rows ends the call
\* with the empty list; the call makes no further request, the backoff time
\* and the counters of the client, the failure counter among them, stay as
\* they were.
C27_EmptyFrameReturns ==
    /\ [][(f_requests' = f_requests + 1 /\ f_last' \in {"empty", "empty_slow"}) =>
              /\ fpc' = "returned"
              /\ f_result' = <<>>
              /\ client' = client
              /\ f_backoff' = f_backoff
              /\ f_failed' = f_failed
              /\ attempt' = attempt]_vars
    /\ [][(fpc = "returned" /\ f_last \in {"empty", "empty_slow"}) =>
              f_requests' \in {f_requests, 0}]_vars

\* C27 witness: the second request of a call, made after a failure, answered
\* with zero rows; the call returned with one failure counted.
C27_Witness ==
    /\ fpc = "returned"
    /\ f_last = "empty"
    /\ f_requests = 2
    /\ f_failed = 1
    /\ attempt = 1
    /\ client.consecutive_failures = 1

\* C28: a get_box_score call with an empty id or an id that is not 10
\* characters long returns the empty list without a _rate_limit call and
\* without a request, and leaves the client's counters and breaker flag as
\* they were.
C28_MalformedIdShortCircuits ==
    /\ []((fpc # "idle" /\ (f_game_id = "" \/ Len(f_game_id) # 10)) =>
              /\ fpc = "returned"
              /\ f_acquires = 0
              /\ f_requests = 0
              /\ f_result = <<>>)
    /\ [][(fetchVars' # fetchVars /\ (f_game_id' = "" \/ Len(f_game_id') # 10)) =>
              client' = client]_vars

\* C28 witness: a client that has made requests was called with an id of 8
\* characters and returned at once.
C28_Witness ==
    /\ fpc = "returned"
    /\ f_game_id = "22300270"
    /\ f_max_retries = 3
    /\ f_acquires = 0
    /\ client.request_count >= 2
    /\ client.consecutive_failures >= 1

\* C18 as stated: when a get_box_score call has returned after a request
\* that answered with rows, the failure counter is 0.
C18_SuccessResetsFailures ==
    (fpc = "returned" /\ f_last \in {"fast", "slow"}) => client.consecutive_failures = 0

-----------------------------------------------------------------------------
(* Properties of the limiter's tiers, checked under SpecLimiter *)

\* 300 times the multiplier C13 names for a call that is the request_count-th
\* request of a client with these counters
ClaimedMultiplier300(failures, slow, request_count) ==
    IF failures \in 6..9 THEN 300 * 8
    ELSE IF failures \in 3..5 THEN 300 * 4
    ELSE IF slow > 5 THEN 300 * 2
    ELSE IF slow > 2 THEN 450
    ELSE IF request_count > 100 THEN 300 + (request_count - 100)
    ELSE 300

\* C13: a _rate_limit call made with fewer than 10 consecutive failures
\* enforces the base delay times the multiplier of the first tier that
\* matches, failures before slow requests before the request count; the
\* multiplier of the request-count tier grows by 1/300 with every request
\* counted after the 100th, the call's own included.
C13_FirstMatchingTier ==
    [][(IsAcquireStep /\ client.consecutive_failures < 10) =>
          rl_delay' * 300 =
              Ticks(rate_limit_delay)
              * ClaimedMultiplier300(client.consecutive_failures,
                                     client.slow_request_count,
                                     client'.request_count)]_vars

\* C13 witness: a call made after more than 100 requests, with more than 5
\* slow requests and 6 failures, enforced 8 times the base delay.
C13_Witness ==
    /\ client.request_count > 101
    /\ client.slow_request_count > 5
    /\ client.consecutive_failures = 6
    /\ rl_delay = Ticks(rate_limit_delay) * 8

\* the delay of the tier next above the request-count tier (line 63), the
\* largest delay that keeps the request-count tier below the others
TierCeiling == (Ticks(rate_limit_delay) * 3) \div 2

\* C21 as stated, for the ceiling of one and a half times the base delay: a
\* call that no failure tier and no slow-request tier decides enforces at
\* most the ceiling, however many requests were issued.
C21_RequestTierHasCeiling ==
    (client.consecutive_failures <= 2 /\ client.slow_request_count <= 2)
        => rl_delay <= TierCeiling

-----------------------------------------------------------------------------
(* Properties of the schedule walk, checked under SpecDiscover *)

\* once the streak of empty days is at max_empty_days, the walk requests no
\* further day and returns the games found so far
StreakEndsWalk ==
    [][(dpc = "walk" /\ consecutive_empty_days >= max_empty_days)
        => (/\ dpc' = "returned"
            /\ d_requests' = d_requests
            /\ all_games' = all_games
            /\ d_result' = all_games)]_vars

\* C8 as stated: whenever the streak of empty days has reached 7, with or
\* without a game found, no further schedule-day request is issued and the
\* games found so far are returned, and the walk has then not reached
\* June 30: the date it would request next is June 30 or earlier.
C8_HaltsBeforeSeasonEnd ==
    /\ StreakEndsWalk
    /\ [](consecutive_empty_days >= max_empty_days => DateLE(current_date, end_date))

\* C8 amended: the same, except that the streak may reach 7 on June 30
\* itself; every date up to June 30 has then been requested and the walk ends
\* at its nominal end.  The streak never passes 7.
C8_StreakEndsWalk ==
    /\ StreakEndsWalk
    /\ [](consecutive_empty_days <= max_empty_days)
    /\ [](consecutive_empty_days >= max_empty_days
            => DateLE(current_date, end_date) \/ current_date = NextDay(end_date))
    /\ [](dpc = "returned" => d_result = all_games /\ Len(all_games) <= d_requests)

\* C8 witness: the walk has returned early, after games were found, on a
\* streak of 7 empty days.
C8_Witness ==
    /\ dpc = "returned"
    /\ consecutive_empty_days = max_empty_days
    /\ current_date # NextDay(end_date)
    /\ current_date.month = 10
    /\ Len(d_result) > 0

\* C25: a day whose request raises adds one to the streak, adds no game and
\* lets the walk go on with the next date, as a day without games does; when
\* the streak is 7 no further day is requested, and the call returns the
\* games found.
C25_ErrorDayCountsAsEmpty ==
    /\ [][(d_requests' # d_requests
             /\ DayAnswer(schedule, d_requests) \in {"error", "empty"}) =>
              /\ consecutive_empty_days' = consecutive_empty_days + 1
              /\ all_games' = all_games
              /\ current_date' = NextDay(current_date)
              /\ dpc' = "walk"]_vars
    /\ [][consecutive_empty_days >= max_empty_days => d_requests' = d_requests]_vars
    /\ [](dpc = "returned" => d_result = all_games)

\* C25 witness: seven days of errors from the first day on have ended the
\* walk, which returned no game.
C25_Witness ==
    /\ dpc = "returned"
    /\ schedule.idle = "error"
    /\ d_requests = 7
    /\ consecutive_empty_days = 7
    /\ d_result = <<>>

\* max_retries of get_box_score, the attempt cap of a box-score fetch
default_max_retries == 3

\* C20 as stated: the request for a day that answers with an error is made
\* again, up to the attempt cap of a box-score fetch, before the walk counts
\* the day as empty and moves to the next.
C20_ErrorDayIsRetried ==
    [][(d_requests' # d_requests /\ DayAnswer(schedule, d_requests) = "error") =>
          d_requests' = d_requests + default_max_retries]_vars

-----------------------------------------------------------------------------
(* Properties of the batch writer, checked under SpecWriter *)

\* C2: in every reachable state of the store, after any sequence of writer
\* calls (bulk insert, row-by-row fallback, with the pair set cleared or new)
\* and of single-row ingest_box_score calls, no two BoxScore rows share the
\* same (game_id, player_id).
C2_UniquePairs ==
    \A i, j \in DOMAIN box_scores :
        PairOf(box_scores[i]) = PairOf(box_scores[j]) => i = j

\* C2 witness: the writer went row by row on candidates of which the store
\* held some pairs that the pair set did not, and added the others.
C2_Witness ==
    /\ w_last.path = "row_by_row"
    /\ w_last.violating >= 1
    /\ w_last.tracked = 0
    /\ w_last.added >= 1
    /\ Len(box_scores) > db_check_threshold

\* C10: on every path of the writer (all candidates dropped, bulk insert
\* committed, row-by-row fallback) the count returned is the number of rows
\* the call added to the store.
C10_ReturnedIsAdded ==
    /\ w_last.returned = w_last.added
    /\ w_last.path = "dropped_all" => w_last.returned = 0
    /\ w_last.returned <= w_last.n

\* C10 witness: a row-by-row call that was given the same pair twice and
\* returned less than the number of candidates.
C10_Witness ==
    /\ w_last.path = "row_by_row"
    /\ ~w_last.distinct
    /\ w_last.returned >= 1
    /\ w_last.returned < w_last.n

\* every row of the table is in the table after the step, as it was
RowsStay(table, after) ==
    \A i \in DOMAIN table : i \in DOMAIN after /\ after[i] = table[i]

C19_MinutesNeverNull ==
    \A i \in DOMAIN box_scores : box_scores[i].minutes # NULL

\* final_box_scores when the existence query is made whatever the number of
\* pairs, and when it is skipped whatever the number
QueriedFinal(table, objs, pairs) ==
    SelectSeq(NewBoxScores(objs, pairs), LAMBDA bs : PairOf(bs) \notin PairsOf(table))
SkippedFinal(table, objs, pairs) == NewBoxScores(objs, pairs)

\* C24: for every candidate list, on the table and the pair set of every
\* state, the call with the existence query and the call without it give the
\* same table, return the same count and leave the same pair set.
C24_QueryOrConstraint ==
    \A objs \in CandidateLists :
        LET queried == WriteFinal(box_scores, inserted_pairs,
                                  QueriedFinal(box_scores, objs, inserted_pairs))
            skipped == WriteFinal(box_scores, inserted_pairs,
                                  SkippedFinal(box_scores, objs, inserted_pairs))
        IN  /\ queried.table = skipped.table
            /\ queried.count = skipped.count
            /\ queried.pairs = skipped.pairs

\* C24 witness: a call of more than 100 distinct pairs skipped the query, and
\* the constraint refused the rows whose pairs the table held.
C24_Witness ==
    /\ w_last.n > db_check_threshold
    /\ w_last.distinct
    /\ w_last.path = "row_by_row"
    /\ w_last.violating >= 1
    /\ w_last.returned = w_last.n - w_last.violating

\* the pairs of the rows a call added to the table
PersistedPairs(table, res) ==
    {PairOf(res.table[i]) : i \in (Len(table) + 1)..Len(res.table)}

\* the pairs of which the call was left with more rows to insert than it
\* added: the rows the constraint refused
RefusedPairs(table, final_box_scores, res) ==
    {p \in PairsOf(final_box_scores) :
        Cardinality({i \in DOMAIN final_box_scores : PairOf(final_box_scores[i]) = p})
            > Cardinality({i \in (Len(table) + 1)..Len(res.table) :
                              PairOf(res.table[i]) = p})}

\* C29 as stated: for every candidate list, one that repeats a pair
\* included, on the table and the pair set of every state, the pair set the
\* writer leaves holds the pair of every row the call added and the pair of
\* no row the constraint refused.
C29_PairSetAgrees ==
    \A objs \in CandidateLists :
        LET res == BatchInsert(box_scores, objs, inserted_pairs)
            final_box_scores == FinalBoxScores(box_scores, objs, inserted_pairs)
        IN  /\ PersistedPairs(box_scores, res) \subseteq res.pairs
            /\ RefusedPairs(box_scores, final_box_scores, res) \cap res.pairs = {}

\* C15 as stated: a writer call during which the connection to the store was
\* lost has raised the error to its caller.
C15_ErrorPropagates ==
    w_last.path = "lost" => w_last.raised

-----------------------------------------------------------------------------
(* Properties of the entity resolvers, checked under SpecResolver *)

\* the two digits of k < 100
TwoDigits(k) == <<Chars[(k \div 10) + 1], Chars[(k % 10) + 1]>>

\* the label C9 names for a date: "Y-(Y+1 mod 100)" from October to December,
\* "(Y-1)-(Y mod 100)" from January to September
ClaimedSeason(d) ==
    IF d.month \in 10..12
    THEN Str(d.year) \o <<"-">> \o TwoDigits((d.year + 1) % 100)
    ELSE Str(d.year - 1) \o <<"-">> \o TwoDigits(d.year % 100)

\* C9 as stated: every Game row holds the season label of its date, whatever
\* season the payload names.
C9_SeasonFromDate ==
    \A i \in DOMAIN games : games[i].season = ClaimedSeason(games[i].game_date)

\* the key of a Game row
GameKey(g) == <<g.game_date, g.home_team_id, g.away_team_id>>

\* C11: no two Game rows share date, home team and away team; a call of
\* ingest_game that returns an id returns the id of the row with the
\* payload's key; a call whose key is already stored adds no row, and a call
\* that adds a row adds one whose key was not stored.
C11_OneGamePerKey ==
    /\ [](\A i, j \in DOMAIN games : GameKey(games[i]) = GameKey(games[j]) => i = j)
    /\ [][(g_last' # g_last /\ g_last'.id # NoId) =>
            \E i \in DOMAIN games' :
                /\ games'[i].id = g_last'.id
                /\ GameKey(games'[i]) = <<ParseGameDate(g_last'.payload.gameDate),
                                          Get(team_map, g_last'.payload.homeTeam),
                                          Get(team_map, g_last'.payload.awayTeam)>>]_vars
    /\ [][games' # games =>
            /\ g_last'.created
            /\ Len(games') = Len(games) + 1
            /\ SubSeq(games', 1, Len(games)) = games
            /\ \A i \in DOMAIN games :
                   GameKey(games[i]) # GameKey(games'[Len(games')])]_vars
    /\ [][(g_last' # g_last /\ ~g_last'.created) => games' = games]_vars

\* C30 as stated: no two Game rows share date, home team and away team,
\* also when two processes interleave the existence query and the insert of
\* ingest_game.
C30_OneGamePerKeyInterleaved ==
    \A i \in DOMAIN games : \A j \in DOMAIN games :
        (i # j) => GameKey(games[i]) # GameKey(games[j])

\* C11 witness: a call found its key in the table and returned the id of the
\* row that holds it.
C11_Witness ==
    /\ g_last.id # NoId
    /\ ~g_last.created
    /\ Len(games) >= 1

\* C12: no two Team rows share an abbreviation; no call of ingest_teams
\* changes or removes a stored row; every abbreviation in the map the call
\* returns maps to the id of the row with that abbreviation.
C12_OneTeamPerAbbreviation ==
    /\ [](\A i, j \in DOMAIN teams :
            teams[i].abbreviation = teams[j].abbreviation => i = j)
    /\ [][\A i \in DOMAIN teams : i \in DOMAIN teams' /\ teams'[i] = teams[i]]_vars
    /\ [](\A abbreviation \in DOMAIN team_map :
            \E i \in DOMAIN teams : /\ teams[i].abbreviation = abbreviation
                                     /\ teams[i].id = team_map[abbreviation])

\* C12 witness: a call that named only the Lakers' abbreviation, with another
\* name, city and conference, returned the id of the row stored before, which
\* holds what it held.
C12_Witness ==
    /\ DOMAIN team_map = {"LAL"}
    /\ \E i \in DOMAIN teams :
           /\ teams[i] = [id |-> i, name |-> Lakers, abbreviation |-> "LAL",
                          city |-> "Los Angeles", conference |-> ""]
           /\ team_map["LAL"] = i

\* C22 as stated: after a call of ingest_game that found its key stored and
\* whose payload carries scores, the stored row holds the payload's scores.
C22_ScoresAttached ==
    (g_last.id # NoId /\ ~g_last.created /\ g_last.payload.homeScore # NULL)
        => \A i \in DOMAIN games :
              games[i].id = g_last.id
                  => /\ games[i].home_score = g_last.payload.homeScore
                     /\ games[i].away_score = g_last.payload.awayScore

-----------------------------------------------------------------------------
(* Properties of the orchestrator, checked under Spec *)

\* C1 as stated: when a run has ended, the store holds the pair of every
\* candidate the run appended to its batch.
C1_NoCandidateLost ==
    opc = "done" => appended \subseteq PairsOf(box_scores)

\* C3: a second run against the same upstream data leaves the numbers of
\* Team, Player, Game and BoxScore rows as they were after the first run.
C3_SecondRunCreatesNoRow ==
    run >= 2 => RowCounts(teams, players, games, box_scores) = first_counts

\* C3 witness: the second run has ended, on a store that the first run gave
\* teams, players and games, and after the writer was called.
C3_Witness ==
    /\ run = 2
    /\ opc = "done"
    /\ first_counts.teams > 0
    /\ first_counts.players > 0
    /\ first_counts.games > 0
    /\ w_last.path # "none"

\* the keys of a dict in insertion order
Keys(map) == [i \in DOMAIN map |-> map[i].key]

\* C14 as stated: a run that has ended has called get_box_score once with
\* every upstream id of game_id_map, in the order of the map.
C14_FetchesEveryResolvedGame ==
    opc = "done" => fetched = Keys(game_id_map)

\* C14, amended: in a run that resolved at least one player, the fetches made
\* so far are those of the first idx ids of game_id_map, one each and in the
\* order of the map, whatever the earlier fetches gave; the run that has
\* ended has fetched every id of the map, or none when it resolved no player;
\* and a run that has begun its box-score loop ends.
C14_FetchesWhenPlayers ==
    /\ [](opc \in {"box_scores", "rows"} =>
            /\ player_map # EmptyMap
            /\ fetched = SubSeq(Keys(game_id_map), 1, idx))
    /\ [](opc = "done" =>
            fetched = IF player_map # EmptyMap THEN Keys(game_id_map) ELSE <<>>)
    /\ (opc \in {"box_scores", "rows"}) ~> (opc = "done")

\* C14 witness: a run has ended after it called get_box_score for the three
\* resolved games of an upstream that holds rows for each, and every fetch
\* gave nothing.
C14_Witness ==
    /\ opc = "done"
    /\ upstream = FewGames
    /\ fetched = <<1, 2, 3>>
    /\ appended = {}

\* the keys of the rows of the store
StoreKeys ==
    [teams |-> {teams[i].abbreviation : i \in DOMAIN teams},
     players |-> {players[i].name : i \in DOMAIN players},
     games |-> {GameKey(games[i]) : i \in DOMAIN games},
     box_scores |-> PairsOf(box_scores)]

\* lines 494-500 on an empty game table: the table after the games of
\* games_data
RECURSIVE GamesAfter(_, _, _)
GamesAfter(table, games_data, teams_by_abbr) ==
    IF games_data = <<>> THEN table
    ELSE GamesAfter(IngestGame(table, Head(games_data), teams_by_abbr).table,
                    Tail(games_data), teams_by_abbr)

\* the keys in the store after one run that was not interrupted, on an empty
\* store: the teams, players and games its resolvers create, and no box score
UninterruptedKeys(up) ==
    LET t == IngestTeams(<<>>, IF up.teams # <<>> THEN up.teams ELSE basic_teams)
        p == IngestPlayers([table |-> <<>>, player_map |-> EmptyMap], up.players,
                           t.team_map)
        g == GamesAfter(<<>>, up.games, t.team_map)
    IN  [teams |-> {t.table[i].abbreviation : i \in DOMAIN t.table},
         players |-> {p.table[i].name : i \in DOMAIN p.table},
         games |-> {GameKey(g[i]) : i \in DOMAIN g},
         box_scores |-> {}]

\* C17: when a run has ended, after an interrupted run or not, the store
\* holds the keys that one uninterrupted run on an empty store leaves, each
\* key in one row.
C17_ResumeGivesSameKeys ==
    opc = "done" =>
        /\ StoreKeys = UninterruptedKeys(upstream)
        /\ Cardinality(StoreKeys.teams) = Len(teams)
        /\ Cardinality(StoreKeys.players) = Len(players)
        /\ Cardinality(StoreKeys.games) = Len(games)
        /\ Cardinality(StoreKeys.box_scores) = Len(box_scores)

\* C17 witness: the second run has ended on the store the first run left
\* when it was killed, with teams, players and games in it.
C17_Witness ==
    /\ opc = "done"
    /\ run = 2
    /\ interrupts = 1
    /\ Len(teams) >= 2
    /\ Len(players) >= 2
    /\ Len(games) >= 2

\* C23 as stated: when the run has handled a fetched row that names a
\* player, a Player row of that name is in the store and the pair of the
\* game and that player is among the pairs of the candidates built so far.
C23_EveryNamedRowYieldsCandidate ==
    [][(/\ opc = "rows"
        /\ rows_left # <<>>
        /\ rows_left' = Tail(rows_left)
        /\ Head(rows_left).playerName # "")
          => \E i \in DOMAIN players' :
                /\ players'[i].name = Head(rows_left).playerName
                /\ <<game_id_map[idx].value, players'[i].id>> \in inserted_pairs']_vars

\* C7 as stated: a writer call given n candidates with distinct pairs, of
\* which k violate the uniqueness constraint of the store, adds n - k rows
\* and returns n - k.
C7_PersistsAllButViolating ==
    (w_last.path # "none" /\ w_last.distinct)
        => /\ w_last.added = w_last.n - w_last.violating
           /\ w_last.returned = w_last.n - w_last.violating

====
